---- MODULE Spec2Model ----
(***************************************************************************)
(* Model of matminer/featurizers/stats.py: the PropertyStats library of    *)
(* statistics over (optionally weighted) lists of floats, and calc_stat,   *)
(* which resolves a statistic by the name in a "__"-delimited identifier.   *)
(*                                                                         *)
(* Floats are modelled as exact rationals <<n, d>> with d > 0, extended by  *)
(* the IEEE special values NaN = <<0,0>>, +inf = <<1,0>>, -inf = <<-1,0>>. *)
(* Roots are kept symbolic: a scalar result [rad |-> q, deg |-> k] stands   *)
(* for q^(1/k), so a plain number has deg = 1 and a square root deg = 2.    *)
(***************************************************************************)
EXTENDS Integers, Sequences, FiniteSets, TLC

VARIABLES call, result, invoked, scipy_nan_propagate

vars == <<call, result, invoked, scipy_nan_propagate>>

(***************************************************************************)
(* Bounds of the model.                                                    *)
(***************************************************************************)
MaxLen == 3
MaxVal == 3

(***************************************************************************)
(* Floats.                                                                 *)
(***************************************************************************)
NaN == <<0, 0>>
PosInf == <<1, 0>>

Abs(i) == IF i < 0 THEN -i ELSE i

Sign(i) == IF i > 0 THEN 1 ELSE IF i < 0 THEN -1 ELSE 0

RECURSIVE GCD(_, _)
GCD(a, b) == IF b = 0 THEN a ELSE GCD(b, a % b)

Norm(n, d) ==
    IF d = 0 THEN <<Sign(n), 0>>
    ELSE LET s == IF d < 0 THEN -1 ELSE 1
             g == GCD(Abs(n), Abs(d))
         IN  <<(s * n) \div g, (s * d) \div g>>

Flt(i) == <<i, 1>>

IsNaN(a) == a = NaN

IsFinite(a) == a[2] # 0

RAdd(a, b) ==
    IF a[2] = 0 /\ b[2] = 0 THEN (IF a = b THEN a ELSE NaN)
    ELSE IF a[2] = 0 THEN a
    ELSE IF b[2] = 0 THEN b
    ELSE LET g == GCD(a[2], b[2])
             l == (a[2] \div g) * b[2]
         IN  Norm(a[1] * (l \div a[2]) + b[1] * (l \div b[2]), l)

RNeg(a) == <<-a[1], a[2]>>

RSub(a, b) == RAdd(a, RNeg(b))

RMul(a, b) == Norm(a[1] * b[1], a[2] * b[2])

RInv(a) ==
    IF a[1] > 0 THEN <<a[2], a[1]>>
    ELSE IF a[1] < 0 THEN <<-a[2], -a[1]>>
    ELSE IF a[2] = 0 THEN NaN
    ELSE PosInf

RDiv(a, b) == RMul(a, RInv(b))

RAbs(a) == <<Abs(a[1]), a[2]>>

\* a < b as IEEE compares: FALSE whenever an operand is NaN.
RLt(a, b) == ~IsNaN(a) /\ ~IsNaN(b) /\ a[1] * b[2] < b[1] * a[2]

RLe(a, b) == ~IsNaN(a) /\ ~IsNaN(b) /\ a[1] * b[2] <= b[1] * a[2]

\* a == b as IEEE compares: NaN is equal to nothing, itself included.
REq(a, b) == ~IsNaN(a) /\ ~IsNaN(b) /\ a = b

RECURSIVE RPowNat(_, _)
RPowNat(a, k) == IF k = 0 THEN Flt(1) ELSE RMul(a, RPowNat(a, k - 1))

\* a ** p for an integer exponent p.
RPow(a, p) == IF p >= 0 THEN RPowNat(a, p) ELSE RInv(RPowNat(a, -p))

\* q ** (1/k), kept symbolic; NaN propagates.
Root(q, k) == IF IsNaN(q) THEN [rad |-> NaN, deg |-> 1] ELSE [rad |-> q, deg |-> k]

Scalar(q) == Root(q, 1)

(***************************************************************************)
(* Outcomes of a call: a returned scalar, a returned array, or a raised    *)
(* exception.                                                              *)
(***************************************************************************)
Return(v) == [kind |-> "return", val |-> v]

ReturnArray(l) == [kind |-> "array", arr |-> l]

Raise(e) == [kind |-> "raise", err |-> e]

Raised(o) == o.kind = "raise"

(***************************************************************************)
(* The weights argument: None or a list.                                   *)
(***************************************************************************)
None == [is_none |-> TRUE, list |-> <<>>]

Weights(l) == [is_none |-> FALSE, list |-> l]

(***************************************************************************)
(* Element-wise helpers over lists of floats.                              *)
(***************************************************************************)
RECURSIVE Sum(_)
Sum(l) == IF l = <<>> THEN Flt(0) ELSE RAdd(Head(l), Sum(Tail(l)))

RECURSIVE Product(_)
Product(l) == IF l = <<>> THEN Flt(1) ELSE RMul(Head(l), Product(Tail(l)))

Multiply(a, b) == [i \in DOMAIN a |-> RMul(a[i], b[i])]

Ones(l) == [i \in DOMAIN l |-> Flt(1)]

Subtract(a, m) == [i \in DOMAIN a |-> RSub(a[i], m)]

Power(a, p) == [i \in DOMAIN a |-> RPow(a[i], p)]

Dot(a, b) == Sum(Multiply(a, b))

HasNaN(l) == \E i \in DOMAIN l : IsNaN(l[i])

(***************************************************************************)
(* Python builtins.                                                        *)
(***************************************************************************)
\* x in lst, for an x that was constructed by the expression itself (so it is
\* no element of lst): list.__contains__ holds when some element is the same
\* object as x, which cannot be, or compares equal to x.
ContainsFresh(lst, x) == \E i \in DOMAIN lst : REq(lst[i], x)

\* min(lst): the first element, replaced by each later element that compares
\* less than the current minimum.
RECURSIVE MinFrom(_, _)
MinFrom(best, rest) ==
    IF rest = <<>> THEN best
    ELSE MinFrom(IF RLt(Head(rest), best) THEN Head(rest) ELSE best, Tail(rest))

RECURSIVE MaxFrom(_, _)
MaxFrom(best, rest) ==
    IF rest = <<>> THEN best
    ELSE MaxFrom(IF RLt(best, Head(rest)) THEN Head(rest) ELSE best, Tail(rest))

\* min(lst) with a placeholder for the empty list.
PyMin_placeholder(lst) ==
    IF lst = <<>> THEN Return(Scalar(NaN)) ELSE Return(Scalar(MinFrom(Head(lst), Tail(lst))))

PyMin(lst) == IF lst = <<>> THEN Raise("ValueError") ELSE Return(Scalar(MinFrom(Head(lst), Tail(lst))))

PyMax(lst) == IF lst = <<>> THEN Raise("ValueError") ELSE Return(Scalar(MaxFrom(Head(lst), Tail(lst))))

\* float(s) for the strings the model passes: an optionally signed run of
\* decimal digits; anything else raises ValueError.
DigitChars == <<"0", "1", "2", "3", "4", "5", "6", "7", "8", "9">>

IsDigit(c) == \E k \in DOMAIN DigitChars : DigitChars[k] = c

DigitVal(c) == (CHOOSE k \in DOMAIN DigitChars : DigitChars[k] = c) - 1

RECURSIVE DigitsVal(_, _)
DigitsVal(s, acc) ==
    IF Len(s) = 0 THEN acc
    ELSE DigitsVal(SubSeq(s, 2, Len(s)), acc * 10 + DigitVal(SubSeq(s, 1, 1)))

AllDigits(s) == Len(s) > 0 /\ \A i \in 1..Len(s) : IsDigit(SubSeq(s, i, i))

float(s) ==
    LET signed == Len(s) > 0 /\ SubSeq(s, 1, 1) \in {"-", "+"}
        body   == IF signed THEN SubSeq(s, 2, Len(s)) ELSE s
    IN  IF ~AllDigits(body) THEN [ok |-> FALSE, v |-> 0]
        ELSE [ok |-> TRUE,
              v  |-> IF signed /\ SubSeq(s, 1, 1) = "-"
                     THEN -DigitsVal(body, 0) ELSE DigitsVal(body, 0)]

\* The power argument of holder_mean: a number or a string.
PyStr(s) == [type |-> "str", s |-> s, v |-> 0]

PyNum(i) == [type |-> "num", s |-> "", v |-> i]

(***************************************************************************)
(* numpy and scipy functions the statistics call.                          *)
(***************************************************************************)
\* np.mean(a): the sum over the length; 0.0/0 is NaN for an empty array.
np_mean(a) == RDiv(Sum(a), Flt(Len(a)))

\* np.average without the division by the sum of the weights.
np_average_unscaled(a, weights) ==
    IF weights.is_none THEN Return(Scalar(np_mean(a)))
    ELSE IF Sum(weights.list) = Flt(0) THEN Raise("ZeroDivisionError")
    ELSE Return(Scalar(Sum(Multiply(a, weights.list))))

\* np.average(a, weights=weights).
np_average(a, weights) ==
    IF weights.is_none THEN Return(Scalar(np_mean(a)))
    ELSE LET scl == Sum(weights.list)
         IN  IF scl = Flt(0) THEN Raise("ZeroDivisionError")
             ELSE Return(Scalar(RDiv(Sum(Multiply(a, weights.list)), scl)))

\* np.std(a): the population standard deviation.
np_std(a) ==
    LET m == np_mean(a)
    IN  Root(np_mean(Power(Subtract(a, m), 2)), 2)

\* np.min / ndarray.min / ndarray.max: NaN propagates; empty raises.
np_min(a) ==
    IF a = <<>> THEN Raise("ValueError")
    ELSE IF HasNaN(a) THEN Return(Scalar(NaN))
    ELSE Return(Scalar(MinFrom(Head(a), Tail(a))))

np_max(a) ==
    IF a = <<>> THEN Raise("ValueError")
    ELSE IF HasNaN(a) THEN Return(Scalar(NaN))
    ELSE Return(Scalar(MaxFrom(Head(a), Tail(a))))

\* np.isclose(a, b) with its default tolerances: |a - b| <= atol + rtol * |b|.
rtol == <<1, 100000>>
atol == <<1, 100000000>>

\* Exact equality in place of the tolerance.
isclose_exact(a, b) == REq(a, b)

isclose(a, b) == RLe(RAbs(RSub(a, b)), RAdd(atol, RMul(rtol, RAbs(b))))

\* The values of a set of floats in ascending order.
RECURSIVE SortSet(_)
SortSet(S) ==
    IF S = {} THEN <<>>
    ELSE LET m == CHOOSE x \in S : \A y \in S : RLe(x, y)
         IN  <<m>> \o SortSet(S \ {m})

\* np.sort(a): ascending, NaN last.
RECURSIVE Insert(_, _)
Insert(x, l) ==
    IF l = <<>> THEN <<x>>
    ELSE IF IsNaN(Head(l)) \/ RLt(x, Head(l)) THEN <<x>> \o l
    ELSE <<Head(l)>> \o Insert(x, Tail(l))

RECURSIVE np_sort(_)
np_sort(a) == IF a = <<>> THEN <<>> ELSE Insert(Head(a), np_sort(Tail(a)))

Count(a, v) == Cardinality({i \in DOMAIN a : REq(a[i], v)})

\* scipy.stats.mode(a).mode[0]. The scores are the distinct values in
\* ascending order; a score replaces the most frequent one when its count is
\* strictly larger. A NaN score counts zero occurrences; a scipy that
\* propagates NaN returns NaN when the data holds one. On empty data .mode
\* has no element 0.
RECURSIVE ModeLoop(_, _, _, _)
ModeLoop(scores, a, mostfrequent, oldcounts) ==
    IF scores = <<>> THEN mostfrequent
    ELSE LET counts == Count(a, Head(scores))
         IN  IF counts > oldcounts
             THEN ModeLoop(Tail(scores), a, Head(scores), counts)
             ELSE ModeLoop(Tail(scores), a, mostfrequent, oldcounts)

stats_mode(a) ==
    IF a = <<>> THEN Raise("IndexError")
    ELSE IF HasNaN(a) /\ scipy_nan_propagate THEN Return(Scalar(NaN))
    ELSE Return(Scalar(ModeLoop(SortSet({a[i] : i \in DOMAIN a} \ {NaN}), a, Flt(0), 0)))

\* stats.mstats.gmean(a): exp(mean(log(a))), the n-th root of the product.
gmean(a) ==
    IF a = <<>> THEN Scalar(NaN) ELSE Root(Product(a), Len(a))

\* np.arange(start, stop, step): ceil((stop - start) / step) values from start.
np_arange(start, stop, step) ==
    LET q == RDiv(RSub(stop, start), step)
        n == -((-q[1]) \div q[2])
    IN  [i \in 1..(IF n > 0 THEN n ELSE 0) |-> RAdd(start, RMul(Flt(i - 1), step))]

\* np.histogram(a, bins=edges)[0]: one count per pair of consecutive edges;
\* a bin is closed on the left and open on the right, except the last, which
\* is closed on both sides. Values outside the edges are not counted.
np_histogram(a, edges) ==
    [j \in 1..(IF Len(edges) > 1 THEN Len(edges) - 1 ELSE 0) |->
        Cardinality({i \in DOMAIN a :
            /\ RLe(edges[j], a[i])
            /\ \/ RLt(a[i], edges[j + 1])
               \/ (j = Len(edges) - 1 /\ RLe(a[i], edges[j + 1]))})]

\* np.argsort(hist): the indices in ascending order of count, equal counts
\* in ascending order of index.
RECURSIVE ArgsortFrom(_, _)
ArgsortFrom(hist, left) ==
    IF left = {} THEN <<>>
    ELSE LET m == CHOOSE i \in left : \A j \in left :
                      hist[i] < hist[j] \/ (hist[i] = hist[j] /\ i <= j)
         IN  <<m>> \o ArgsortFrom(hist, left \ {m})

np_argsort(hist) == ArgsortFrom(hist, DOMAIN hist)

\* l[-n:] of Python: the last n elements, and the whole of l when n is 0 or
\* n >= len(l).
LastSlice(l, n) ==
    IF n <= 0 \/ n >= Len(l) THEN l ELSE SubSeq(l, Len(l) - n + 1, Len(l))

\* l[::-1].
Reverse(l) == [i \in DOMAIN l |-> l[Len(l) + 1 - i]]

\* [float('NaN') for _ in range(k)].
NaNs(k) == [i \in 1..(IF k > 0 THEN k ELSE 0) |-> NaN]

(***************************************************************************)
(* PropertyStats.                                                          *)
(***************************************************************************)
minimum(data_lst, weights) ==
    IF ~ContainsFresh(data_lst, NaN) THEN PyMin(data_lst) ELSE Return(Scalar(NaN))

maximum(data_lst, weights) ==
    IF ~ContainsFresh(data_lst, NaN) THEN PyMax(data_lst) ELSE Return(Scalar(NaN))

range(data_lst, weights) ==
    IF ~ContainsFresh(data_lst, NaN)
    THEN IF Raised(PyMax(data_lst)) THEN PyMax(data_lst)
         ELSE Return(Scalar(RSub(PyMax(data_lst).val.rad, PyMin(data_lst).val.rad)))
    ELSE Return(Scalar(NaN))

mean(data_lst, weights) == np_average(data_lst, weights)

inverse_mean(data_lst, weights) ==
    IF \E i \in DOMAIN data_lst : REq(data_lst[i], Flt(0)) THEN Raise("ZeroDivisionError")
    ELSE mean([i \in DOMAIN data_lst |-> RDiv(Flt(1), data_lst[i])], weights)

avg_dev(data_lst, weights) ==
    LET m == mean(data_lst, weights)
    IN  IF Raised(m) THEN m
        ELSE np_average([i \in DOMAIN data_lst |-> RAbs(RSub(data_lst[i], m.val.rad))], weights)

std_dev(data_lst, weights) ==
    IF weights.is_none THEN Return(np_std(data_lst))
    ELSE LET w    == weights.list
             beta == RDiv(Sum(w), RSub(RPow(Sum(w), 2), Sum(Power(w, 2))))
             m    == mean(data_lst, weights)
         IN  IF Raised(m) THEN m
             ELSE Return(Root(RMul(beta, Dot(Power(Subtract(data_lst, m.val.rad), 2), w)), 2))

\* The integer a weight denotes (the model's weights are whole numbers).
IntOf(w) == w[1]

holder_mean(data_lst, weights, power) ==
    LET p == IF power.type = "str" THEN float(power.s) ELSE [ok |-> TRUE, v |-> power.v]
    IN  IF ~p.ok THEN Raise("ValueError")
        ELSE IF weights.is_none
        THEN IF p.v = 0 THEN Return(gmean(data_lst))
             ELSE Return(Root(np_mean(Power(data_lst, p.v)), p.v))
        ELSE LET w     == weights.list
                 alpha == Sum(w)
             IN  IF p.v = 0
                 THEN Return(Root(Product([i \in DOMAIN data_lst |-> RPow(data_lst[i], IntOf(w[i]))]),
                                  IF w = <<>> THEN 1 ELSE IntOf(Sum(w))))
                 ELSE Return(Root(RDiv(Sum(Multiply(w, Power(data_lst, p.v))), alpha), p.v))

\* sqrt(exp(beta * sum(w_i * log(x_i / mean)^2))). The logarithms are zero
\* exactly when every x_i equals the geometric mean; otherwise the value is
\* kept as the term of its arguments.
geom_std_dev(data_lst, weights) ==
    LET w    == IF weights.is_none THEN Ones(data_lst) ELSE weights.list
        m    == holder_mean(data_lst, Weights(w), PyNum(0))
        beta == RDiv(Sum(w), RSub(RPow(Sum(w), 2), Sum(Power(w, 2))))
        flat == \A i \in DOMAIN data_lst : data_lst[i] = data_lst[1]
    IN  IF IsNaN(beta) \/ HasNaN(data_lst) THEN Return(Scalar(NaN))
        ELSE IF flat THEN Return(Scalar(IF IsFinite(beta) THEN Flt(1) ELSE NaN))
        ELSE Return([gsd_beta |-> beta, gsd_mean |-> m.val, gsd_data |-> data_lst, gsd_weights |-> w])

mode(data_lst, weights) ==
    IF weights.is_none THEN stats_mode(data_lst)
    ELSE LET w == weights.list
             wmax == np_max(w)
         IN  IF Raised(wmax) THEN wmax
             ELSE LET most_freq == {i \in DOMAIN w : isclose(w[i], wmax.val.rad)}
                      picked == [k \in 1..Cardinality(most_freq) |->
                                   data_lst[CHOOSE i \in most_freq :
                                       Cardinality({j \in most_freq : j < i}) = k - 1]]
                  IN  np_min(picked)

n_numerical_modes(data_lst, n, dl) ==
    IF Cardinality({data_lst[i] : i \in DOMAIN data_lst}) = 1
    THEN ReturnArray(<<data_lst[1]>> \o NaNs(n - 1))
    ELSE IF Raised(PyMin(data_lst)) THEN PyMin(data_lst)
    ELSE LET bins  == np_arange(PyMin(data_lst).val.rad, PyMax(data_lst).val.rad, dl)
             hist  == np_histogram(data_lst, bins)
             picks == Reverse(LastSlice(np_argsort(hist), n))
             modes == [k \in DOMAIN picks |-> bins[picks[k]]]
         IN  ReturnArray(modes \o NaNs(n - Len(modes)))

sorted(data_lst) == ReturnArray(np_sort(data_lst))

(***************************************************************************)
(* calc_stat.                                                              *)
(***************************************************************************)
\* The first index at or after i where sep occurs in s, or 0.
RECURSIVE FindFrom(_, _, _)
FindFrom(s, sep, i) ==
    IF i + Len(sep) - 1 > Len(s) THEN 0
    ELSE IF SubSeq(s, i, i + Len(sep) - 1) = sep THEN i
    ELSE FindFrom(s, sep, i + 1)

\* s.split(sep): cut at each occurrence of sep, found left to right.
RECURSIVE split(_, _)
split(s, sep) ==
    LET i == FindFrom(s, sep, 1)
    IN  IF i = 0 THEN <<s>>
        ELSE <<SubSeq(s, 1, i - 1)>> \o split(SubSeq(s, i + Len(sep), Len(s)), sep)

\* The statistics of PropertyStats that take (data_lst, weights).
WeightedStatistics ==
    {"minimum", "maximum", "range", "mean", "inverse_mean", "avg_dev",
     "std_dev", "geom_std_dev", "mode"}

\* The attributes of PropertyStats the model resolves by name.
Attributes == WeightedStatistics \cup {"holder_mean", "sorted"}

\* getattr(PropertyStats, name)(data_lst, weights, *args): a call with more
\* positional arguments than the function has parameters raises TypeError.
Invoke(name, data_lst, weights, args) ==
    CASE name = "minimum" /\ args = <<>> -> minimum(data_lst, weights)
      [] name = "maximum" /\ args = <<>> -> maximum(data_lst, weights)
      [] name = "range" /\ args = <<>> -> range(data_lst, weights)
      [] name = "mean" /\ args = <<>> -> mean(data_lst, weights)
      [] name = "inverse_mean" /\ args = <<>> -> inverse_mean(data_lst, weights)
      [] name = "avg_dev" /\ args = <<>> -> avg_dev(data_lst, weights)
      [] name = "std_dev" /\ args = <<>> -> std_dev(data_lst, weights)
      [] name = "geom_std_dev" /\ args = <<>> -> geom_std_dev(data_lst, weights)
      [] name = "mode" /\ args = <<>> -> mode(data_lst, weights)
      [] name = "holder_mean" /\ args = <<>> -> holder_mean(data_lst, weights, PyNum(1))
      [] name = "holder_mean" /\ Len(args) = 1 -> holder_mean(data_lst, weights, PyStr(args[1]))
      [] OTHER -> Raise("TypeError")

\* A lookup that falls back to the mean for a name it does not know.
getattr_default(name) == IF name \in Attributes THEN <<name>> ELSE <<"mean">>

\* getattr(PropertyStats, name): the function of that name, as <<name>>, or
\* <<>> when the class has no such attribute (AttributeError).
getattr(name) == IF name \in Attributes THEN <<name>> ELSE <<>>

\* The function calc_stat calls, if any.
Dispatched(stat) == getattr(split(stat, "__")[1])

\* calc_stat that forwards no parameter.
calc_stat_drops_parameters(data_lst, stat, weights) ==
    LET statistics == split(stat, "__")
        f == getattr(statistics[1])
    IN  IF f = <<>> THEN Raise("AttributeError")
        ELSE Invoke(f[1], data_lst, weights, <<>>)

calc_stat(data_lst, stat, weights) ==
    LET statistics == split(stat, "__")
        f == getattr(statistics[1])
    IN  IF f = <<>> THEN Raise("AttributeError")
        ELSE Invoke(f[1], data_lst, weights, Tail(statistics))

(***************************************************************************)
(* The inputs of the calls.                                                *)
(***************************************************************************)
Values == {Flt(v) : v \in 1..MaxVal} \cup {NaN}

Samples == UNION {[1..k -> Values] : k \in 0..MaxLen}

NaNFree(l) == ~HasNaN(l)

WeightValues == {Flt(1), Flt(2)}

\* Large weights one unit apart, which np.isclose takes for equal.
NearTieWeightValues == {Flt(99999), Flt(100000), Flt(100001)}

WeightArgs(data_lst) ==
    {None} \cup {Weights(l) : l \in [1..Len(data_lst) -> WeightValues]}

ModeWeightArgs(data_lst) ==
    WeightArgs(data_lst) \cup
    (IF NaNFree(data_lst)
     THEN {Weights(l) : l \in [1..Len(data_lst) -> NearTieWeightValues]} ELSE {})

NameTokens == Attributes \cup {"not_a_stat", ""}

ParamTokens == {"0", "2", "-1", "x"}

ParamLists == {<<>>} \cup {<<p>> : p \in ParamTokens} \cup {<<"2", "1">>}

\* Only holder_mean takes a parameter: the other names are called with none
\* and with one.
ParamListsOf(name) == IF name = "holder_mean" THEN ParamLists ELSE {<<>>, <<"2">>}

Powers == {PyNum(0), PyNum(1), PyNum(2), PyNum(-1)} \cup {PyStr(p) : p \in ParamTokens}

Counts == 0..3

BinWidths == {<<1, 4>>, <<1, 2>>, Flt(1), Flt(2)}

\* name__p1__...__pk.
RECURSIVE Join(_, _)
Join(tokens, sep) ==
    IF Len(tokens) = 1 THEN tokens[1]
    ELSE tokens[1] \o sep \o Join(Tail(tokens), sep)

(***************************************************************************)
(* The state machine: each action is one call of the library.              *)
(***************************************************************************)
Call(fn, data_lst, weights) ==
    [fn |-> fn, data_lst |-> data_lst, weights |-> weights, stat |-> "",
     name |-> "", params |-> <<>>, power |-> PyNum(1), n |-> 0, dl |-> Flt(1)]

Idle == call.fn = "none"

\* The outcome of a call depends on the scipy build only through
\* stats.mode on data with a NaN, so every other call is explored under one
\* build only.
BuildMatters(name, data_lst, weights) ==
    name = "mode" /\ weights.is_none /\ HasNaN(data_lst)

Explored(name, data_lst, weights) ==
    ~scipy_nan_propagate \/ BuildMatters(name, data_lst, weights)

Init ==
    /\ call = Call("none", <<>>, None)
    /\ result = [kind |-> "none"]
    /\ invoked = <<>>
    /\ scipy_nan_propagate \in BOOLEAN

CalcStat ==
    /\ Idle
    /\ \E data_lst \in Samples, name \in NameTokens :
      \E weights \in WeightArgs(data_lst), params \in ParamListsOf(name) :
        LET stat == Join(<<name>> \o params, "__")
        IN
            /\ Explored(name, data_lst, weights)
            /\ call' = [Call("calc_stat", data_lst, weights) EXCEPT
                            !.stat = stat, !.name = name, !.params = params]
            /\ result' = calc_stat(data_lst, stat, weights)
            /\ invoked' = Dispatched(stat)
            /\ UNCHANGED scipy_nan_propagate

Direct(fn, data_lst, weights, outcome) ==
    /\ Explored(fn, data_lst, weights)
    /\ call' = Call(fn, data_lst, weights)
    /\ result' = outcome
    /\ invoked' = <<fn>>
    /\ UNCHANGED scipy_nan_propagate

Minimum ==
    /\ Idle
    /\ \E data_lst \in Samples : \E weights \in WeightArgs(data_lst) :
         Direct("minimum", data_lst, weights, minimum(data_lst, weights))

Maximum ==
    /\ Idle
    /\ \E data_lst \in Samples : \E weights \in WeightArgs(data_lst) :
         Direct("maximum", data_lst, weights, maximum(data_lst, weights))

Range ==
    /\ Idle
    /\ \E data_lst \in Samples : \E weights \in WeightArgs(data_lst) :
         Direct("range", data_lst, weights, range(data_lst, weights))

Mean ==
    /\ Idle
    /\ \E data_lst \in Samples : \E weights \in WeightArgs(data_lst) :
         Direct("mean", data_lst, weights, mean(data_lst, weights))

InverseMean ==
    /\ Idle
    /\ \E data_lst \in Samples : \E weights \in WeightArgs(data_lst) :
         Direct("inverse_mean", data_lst, weights, inverse_mean(data_lst, weights))

AvgDev ==
    /\ Idle
    /\ \E data_lst \in Samples : \E weights \in WeightArgs(data_lst) :
         Direct("avg_dev", data_lst, weights, avg_dev(data_lst, weights))

StdDev ==
    /\ Idle
    /\ \E data_lst \in Samples : \E weights \in WeightArgs(data_lst) :
         Direct("std_dev", data_lst, weights, std_dev(data_lst, weights))

GeomStdDev ==
    /\ Idle
    /\ \E data_lst \in Samples : \E weights \in WeightArgs(data_lst) :
         Direct("geom_std_dev", data_lst, weights, geom_std_dev(data_lst, weights))

Mode ==
    /\ Idle
    /\ \E data_lst \in Samples : \E weights \in ModeWeightArgs(data_lst) :
         Direct("mode", data_lst, weights, mode(data_lst, weights))

HolderMean ==
    /\ Idle
    /\ \E data_lst \in Samples, power \in Powers : \E weights \in WeightArgs(data_lst) :
        /\ Explored("holder_mean", data_lst, weights)
        /\ call' = [Call("holder_mean", data_lst, weights) EXCEPT !.power = power]
        /\ result' = holder_mean(data_lst, weights, power)
        /\ invoked' = <<"holder_mean">>
        /\ UNCHANGED scipy_nan_propagate

\* The samples of n_numerical_modes are free of NaN: with a NaN the size of
\* set(data_lst) depends on which elements are the same object.
NNumericalModes ==
    /\ Idle
    /\ \E data_lst \in {l \in Samples : NaNFree(l)}, n \in Counts, dl \in BinWidths :
        /\ Explored("n_numerical_modes", data_lst, None)
        /\ call' = [Call("n_numerical_modes", data_lst, None) EXCEPT !.n = n, !.dl = dl]
        /\ result' = n_numerical_modes(data_lst, n, dl)
        /\ invoked' = <<"n_numerical_modes">>
        /\ UNCHANGED scipy_nan_propagate

Sorted ==
    /\ Idle
    /\ \E data_lst \in Samples :
         Direct("sorted", data_lst, None, sorted(data_lst))

\* The caller drops the arguments and the result: nothing outlives a call.
Discard ==
    /\ ~Idle
    /\ call' = Call("none", <<>>, None)
    /\ result' = [kind |-> "none"]
    /\ invoked' = <<>>
    /\ UNCHANGED scipy_nan_propagate

Next ==
    \/ CalcStat
    \/ Minimum
    \/ Maximum
    \/ Range
    \/ Mean
    \/ InverseMean
    \/ AvgDev
    \/ StdDev
    \/ GeomStdDev
    \/ Mode
    \/ HolderMean
    \/ NNumericalModes
    \/ Sorted
    \/ Discard

Spec == Init /\ [][Next]_vars

(***************************************************************************)
(* Properties.                                                             *)
(***************************************************************************)
Data == call.data_lst

Elements(x) == {x[i] : i \in DOMAIN x}

Leq(a, b) == a[1] * b[2] <= b[1] * a[2]

Smallest(S) == CHOOSE v \in S : \A u \in S : Leq(v, u)

Largest(S) == CHOOSE v \in S : \A u \in S : Leq(u, v)

RECURSIVE Ascending(_)
Ascending(S) == IF S = {} THEN <<>> ELSE <<Smallest(S)>> \o Ascending(S \ {Smallest(S)})

AverageOf(S) == RDiv(Sum(Ascending(S)), Flt(Cardinality(S)))

Occurrences(x, v) == Cardinality({i \in DOMAIN x : x[i] = v})

MostFrequentValues(x) ==
    {v \in Elements(x) : \A u \in Elements(x) : Occurrences(x, u) <= Occurrences(x, v)}

\* |w - top| <= 1e-8 + 1e-5 * |top|, for whole-number weights.
WithinTolerance(w, top) == 100000000 * Abs(w[1] - top[1]) <= 1 + 1000 * Abs(top[1])

TopWeightValues(x, w) ==
    {x[i] : i \in {j \in DOMAIN w : WithinTolerance(w[j], Largest(Elements(w)))}}

\* The number a parameter string denotes.
DenotedNumber == ("0" :> 0) @@ ("2" :> 2) @@ ("-1" :> -1)

RegisteredStatistics ==
    {"minimum", "maximum", "range", "sorted", "mean", "inverse_mean", "avg_dev",
     "std_dev", "geom_std_dev", "mode", "holder_mean"}

\* C1: calc_stat(values, name__p1__...__pk, weights) returns what the function
\* called name returns for (values, weights, "p1", ..., "pk"), the parameters
\* forwarded in order as strings; for holder_mean__p that is
\* holder_mean(values, weights, power) for the number power that p denotes.
C1_CalcStatForwardsParameters ==
    (call.fn = "calc_stat" /\ call.name \in RegisteredStatistics) =>
        /\ call.stat = Join(<<call.name>> \o call.params, "__")
        /\ result = Invoke(call.name, Data, call.weights, call.params)
        /\ (/\ call.name = "holder_mean"
            /\ Len(call.params) = 1
            /\ call.params[1] \in DOMAIN DenotedNumber)
           => result = holder_mean(Data, call.weights, PyNum(DenotedNumber[call.params[1]]))

C1_Witness ==
    /\ call.fn = "calc_stat"
    /\ call.stat = "holder_mean__2"
    /\ ~call.weights.is_none
    /\ Len(Data) = 2
    /\ result.kind = "return"
    /\ result.val.deg = 2

\* C2: calc_stat with an identifier whose first token names no registered
\* statistic raises (AttributeError, the UnknownStatistic of the design),
\* returns no value and calls no statistic function.
C2_UnknownStatisticRaises ==
    (call.fn = "calc_stat" /\ call.name \notin RegisteredStatistics) =>
        /\ result = Raise("AttributeError")
        /\ invoked = <<>>

C2_Witness ==
    /\ call.fn = "calc_stat"
    /\ call.stat = "not_a_stat__2"
    /\ Len(Data) = 2
    /\ Raised(result)

\* C3: minimum, maximum and range of a non-empty sample that holds a NaN,
\* at any position, are NaN.
C3_NaNContaminates ==
    (call.fn \in {"minimum", "maximum", "range"} /\ Data # <<>> /\ HasNaN(Data)) =>
        result = Return(Scalar(NaN))

\* C4 as amended: for a non-empty sample, mean, inverse_mean, avg_dev and
\* holder_mean with weights=None return what they return with a weight of 1
\* for every element.
C4_NoneIsUniformForMeans ==
    (/\ call.fn \in {"mean", "inverse_mean", "avg_dev", "holder_mean"}
     /\ call.weights.is_none
     /\ Data # <<>>) =>
        result = CASE call.fn = "mean" -> mean(Data, Weights(Ones(Data)))
                   [] call.fn = "inverse_mean" -> inverse_mean(Data, Weights(Ones(Data)))
                   [] call.fn = "avg_dev" -> avg_dev(Data, Weights(Ones(Data)))
                   [] call.fn = "holder_mean" -> holder_mean(Data, Weights(Ones(Data)), call.power)

C4_Witness ==
    /\ call.fn = "avg_dev"
    /\ call.weights.is_none
    /\ Len(Data) = 3
    /\ result.kind = "return"
    /\ Leq(<<1, 3>>, result.val.rad)

\* C4 as claimed: for a non-empty sample, each of mean, inverse_mean, avg_dev,
\* std_dev, holder_mean and mode with weights=None returns what it returns
\* with a weight of 1 for every element.
C4_NoneIsUniform ==
    (/\ call.fn \in {"mean", "inverse_mean", "avg_dev", "std_dev", "holder_mean", "mode"}
     /\ call.weights.is_none
     /\ Data # <<>>) =>
        result = CASE call.fn = "mean" -> mean(Data, Weights(Ones(Data)))
                   [] call.fn = "inverse_mean" -> inverse_mean(Data, Weights(Ones(Data)))
                   [] call.fn = "avg_dev" -> avg_dev(Data, Weights(Ones(Data)))
                   [] call.fn = "std_dev" -> std_dev(Data, Weights(Ones(Data)))
                   [] call.fn = "mode" -> mode(Data, Weights(Ones(Data)))
                   [] call.fn = "holder_mean" -> holder_mean(Data, Weights(Ones(Data)), call.power)

C6_ModeAveragesTies ==
    (call.fn = "mode" /\ Data # <<>> /\ NaNFree(Data)) =>
        result = Return(Scalar(AverageOf(
                     IF call.weights.is_none THEN MostFrequentValues(Data)
                     ELSE TopWeightValues(Data, call.weights.list))))

AllIdentical(x) == Cardinality(Elements(x)) = 1

\* NaN entries only after every number: right padding.
NaNOnlyOnTheRight(arr) ==
    \A i \in DOMAIN arr : \A j \in DOMAIN arr : (i < j /\ IsNaN(arr[i])) => IsNaN(arr[j])

\* C7: for a non-empty sample, every count n and every bin width,
\* n_numerical_modes returns a list of length exactly n: the common value
\* followed by n-1 NaN when all values are identical, otherwise bin edges
\* followed by NaN padding on the right only.
C7_ReturnsExactlyNEntries ==
    (call.fn = "n_numerical_modes" /\ Data # <<>>) =>
        /\ result.kind = "array"
        /\ Len(result.arr) = call.n
        /\ IF AllIdentical(Data)
           THEN result.arr = <<Data[1]>> \o NaNs(call.n - 1)
           ELSE NaNOnlyOnTheRight(result.arr)

\* The histogram of fixed width dl from the smallest value up to, not
\* including, the largest.
BinEdges == np_arange(Smallest(Elements(Data)), Largest(Elements(Data)), call.dl)

BinCount(edge) ==
    LET k == CHOOSE j \in DOMAIN BinEdges : BinEdges[j] = edge
    IN  IF k \in DOMAIN np_histogram(Data, BinEdges) THEN np_histogram(Data, BinEdges)[k] ELSE 0

NonEmptyBins == {j \in DOMAIN np_histogram(Data, BinEdges) : np_histogram(Data, BinEdges)[j] > 0}

Modes == SelectSeq(result.arr, LAMBDA e : ~IsNaN(e))

\* C8: for a sample whose values are not all identical, n_numerical_modes
\* returns the left edges of the n fullest bins in order of non-increasing
\* count, and NaN for each entry beyond the number of non-empty bins: the
\* edge of an empty bin is never returned.
C8_OnlyNonEmptyBinsInCountOrder ==
    (call.fn = "n_numerical_modes" /\ Data # <<>> /\ ~AllIdentical(Data) /\ call.n >= 1) =>
        /\ result.kind = "array"
        /\ \A k \in DOMAIN Modes :
             /\ \E j \in DOMAIN BinEdges : BinEdges[j] = Modes[k]
             /\ BinCount(Modes[k]) > 0
             /\ k > 1 => BinCount(Modes[k - 1]) >= BinCount(Modes[k])
        /\ Len(Modes) = (IF Cardinality(NonEmptyBins) < call.n
                         THEN Cardinality(NonEmptyBins) ELSE call.n)

ParameterlessStatistics ==
    {"minimum", "maximum", "range", "sorted", "mean", "inverse_mean", "avg_dev",
     "std_dev", "geom_std_dev", "mode", "holder_mean"}

\* The unweighted formula of each statistic.
UnweightedFormula(name, x) ==
    LET n == Flt(Len(x))
        m == RDiv(Sum(x), n)
    IN  CASE name = "minimum" -> Return(Scalar(Smallest(Elements(x))))
          [] name = "maximum" -> Return(Scalar(Largest(Elements(x))))
          [] name = "range" -> Return(Scalar(RSub(Largest(Elements(x)), Smallest(Elements(x)))))
          [] name = "sorted" -> ReturnArray(np_sort(x))
          [] name = "mean" -> Return(Scalar(m))
          [] name = "holder_mean" -> Return(Scalar(m))
          [] name = "inverse_mean" ->
                Return(Scalar(RDiv(Sum([i \in DOMAIN x |-> RInv(x[i])]), n)))
          [] name = "avg_dev" ->
                Return(Scalar(RDiv(Sum([i \in DOMAIN x |-> RAbs(RSub(x[i], m))]), n)))
          [] name = "std_dev" ->
                Return(Root(RDiv(Sum([i \in DOMAIN x |-> RMul(RSub(x[i], m), RSub(x[i], m))]), n), 2))
          [] name = "geom_std_dev" -> geom_std_dev(x, Weights(Ones(x)))
          [] name = "mode" -> Return(Scalar(Smallest(MostFrequentValues(x))))

\* C9: for each parameterless statistic name and every non-empty sample of
\* positive numbers, calc_stat(values, name) with no weights raises nothing
\* and returns the value of the unweighted formula (for sorted, the sample
\* in ascending order).
C9_EveryStatisticAcceptsNoWeights ==
    (/\ call.fn = "calc_stat"
     /\ call.name \in ParameterlessStatistics
     /\ call.params = <<>>
     /\ call.weights.is_none
     /\ Data # <<>>
     /\ NaNFree(Data)) =>
        /\ ~Raised(result)
        /\ result = UnweightedFormula(call.name, Data)

\* A call of one of the named statistics on the empty sample, directly or
\* through calc_stat.
EmptyCall(names) ==
    /\ Data = <<>>
    /\ \/ call.fn \in names
       \/ (call.fn = "calc_stat" /\ call.name \in names /\ call.params = <<>>)

\* A call of holder_mean on the empty sample, and the power it is given.
EmptyHolderMeanCall ==
    /\ Data = <<>>
    /\ \/ call.fn = "holder_mean"
       \/ (call.fn = "calc_stat" /\ call.name = "holder_mean" /\ Len(call.params) <= 1)

GivenPower ==
    IF call.fn = "holder_mean" THEN call.power
    ELSE IF call.params = <<>> THEN PyNum(1)
    ELSE PyStr(call.params[1])

\* C10 as amended: on the empty sample minimum, maximum, range and mode
\* raise whatever the weights; mean, inverse_mean, avg_dev and std_dev raise
\* when a weights list is given and return NaN when weights is None;
\* holder_mean returns NaN, or 1 for power 0 with a weights list, and raises
\* only for a power string that denotes no number.
C10_EmptySampleOutcomes ==
    /\ EmptyCall({"minimum", "maximum", "range"}) => result = Raise("ValueError")
    /\ EmptyCall({"mode"}) =>
         result = Raise(IF call.weights.is_none THEN "IndexError" ELSE "ValueError")
    /\ EmptyCall({"mean", "inverse_mean", "avg_dev", "std_dev"}) =>
         result = (IF call.weights.is_none THEN Return(Scalar(NaN))
                   ELSE Raise("ZeroDivisionError"))
    /\ EmptyHolderMeanCall =>
         result = (IF GivenPower.type = "str" /\ GivenPower.s \notin DOMAIN DenotedNumber
                   THEN Raise("ValueError")
                   ELSE IF ~call.weights.is_none /\
                           (IF GivenPower.type = "str" THEN DenotedNumber[GivenPower.s]
                            ELSE GivenPower.v) = 0
                   THEN Return(Scalar(Flt(1)))
                   ELSE Return(Scalar(NaN)))

C10_Witness ==
    /\ call.fn = "calc_stat"
    /\ call.stat = "minimum"
    /\ Data = <<>>
    /\ ~call.weights.is_none
    /\ result = Raise("ValueError")

\* C10 as claimed: on the empty sample every statistic, called directly or
\* through calc_stat, raises and returns no value.
C10_EmptySampleRaises ==
    EmptyCall({"minimum", "maximum", "range", "mean", "inverse_mean", "avg_dev",
               "std_dev", "mode", "holder_mean"}) => Raised(result)

====
